---- MODULE Spec2Model ----
(***************************************************************************)
(* Model of rest-library: the route table, the middleware registry, the    *)
(* path matcher, the generator-driven continuation protocol and the        *)
(* request dispatcher of class RestLib (src/src/rest.d.ts, lines 82-386)   *)
(* with its helpers (src/unnamed/part_002).                                *)
(*                                                                         *)
(* Strings are sequences of one-character strings, so that trim, split,    *)
(* includes and startsWith are computed as the code computes them.         *)
(***************************************************************************)
EXTENDS Naturals, Sequences, FiniteSets

VARIABLES
    lists,            \* the Array<Listener> objects, by identity (index)
    listeners,        \* #listeners: method -> insertion-ordered Map path -> array
    middleware,       \* #middleware: Array<Middleware>
    errorHandler,     \* #errorHandler is set
    notFoundHandler,  \* #notFoundHandler is set
    calls,            \* history: the registration calls made, in order
    req               \* per request: the state of its #handleRequest invocation

vars == <<lists, listeners, middleware, errorHandler, notFoundHandler, calls, req>>

registryVars == <<lists, listeners, middleware, errorHandler, notFoundHandler, calls>>

-----------------------------------------------------------------------------
(* Bounds of the model *)

\* registration calls (use, get, ..., all, error, notFound) per run
MaxRegs == 3

\* calls of next() made by one listener during its turn
MaxNextCalls == 2

\* numbers of listeners passed to one get / post / ... call
ListenerCounts == {1, 2}

\* the requests in flight; the specifications with one request serve the first
Requests == {1, 2}

FirstRequest == {1}

\* methods used by single-method registration calls in the model
RegMethods == {"GET", "POST"}

\* methods of incoming requests
ReqMethods == {"GET", "POST", "OPTIONS", "HEAD", "TRACE"}

\* "/a", "/*"
RegPaths == { <<"/", "a">>, <<"/", "*">> }

\* "/a", "/b"
ReqPaths == { <<"/", "a">>, <<"/", "b">> }

\* registration calls per run of the specification of all()
AllRegs == 3

\* registration calls per run of the matcher specification
MatchRegs == 2

\* "/f/*", "/f/*/m", "/f/*/*/m", "/f/:x", "/:x/m", "/f", "/f/a*", "/", "/f/*/:y"
MatchPatterns ==
    { <<"/", "f", "/", "*">>,
      <<"/", "f", "/", "*", "/", "m">>,
      <<"/", "f", "/", "*", "/", "*", "/", "m">>,
      <<"/", "f", "/", ":", "x">>,
      <<"/", ":", "x", "/", "m">>,
      <<"/", "f">>,
      <<"/", "f", "/", "a", "*">>,
      <<"/">>,
      <<"/", "f", "/", "*", "/", ":", "y">> }

\* "/f", "/f/", "/f/1", "/f/1/2", "/f/1/m", "/f/1/2/m", "/f/1/m/x", "/f/1/2/3/m",
\* "/g/m", "/", "/f/a*", "/f/a*/x"
MatchPaths ==
    { <<"/", "f">>,
      <<"/", "f", "/", "a", "*">>,
      <<"/", "f", "/", "a", "*", "/", "x">>,
      <<"/", "f", "/">>,
      <<"/", "f", "/", "1">>,
      <<"/", "f", "/", "1", "/", "2">>,
      <<"/", "f", "/", "1", "/", "m">>,
      <<"/", "f", "/", "1", "/", "2", "/", "m">>,
      <<"/", "f", "/", "1", "/", "m", "/", "x">>,
      <<"/", "f", "/", "1", "/", "2", "/", "3", "/", "m">>,
      <<"/", "g", "/", "m">>,
      <<"/">> }

\* registration calls per run of the specification of live registration
LiveRegs == 4

\* registration calls per run of the specification of URLs
UrlRegs == 2

\* "/a", "/a?", "/a?x=1", "/a?x=1?y=2", "/a?x=1&y", "/a??x", "/b?x=1=2", "/a?x=1&x=2"
Urls ==
    { <<"/", "a">>,
      <<"/", "a", "?">>,
      <<"/", "a", "?", "x", "=", "1">>,
      <<"/", "a", "?", "x", "=", "1", "?", "y", "=", "2">>,
      <<"/", "a", "?", "x", "=", "1", "&", "y">>,
      <<"/", "a", "?", "?", "x">>,
      <<"/", "b", "?", "x", "=", "1", "=", "2">>,
      <<"/", "a", "?", "x", "=", "1", "&", "x", "=", "2">> }

\* the content-type header of a request: absent, JSON, and one the body parser
\* does not read
ContentTypes == {"", "application/json", "text/html"}

\* request bodies: none, {"a":1}, and {a (on which JSON.parse throws)
Datas ==
    { [text |-> <<>>, invalid |-> TRUE],
      [text |-> <<"{", "\"", "a", "\"", ":", "1", "}">>, invalid |-> FALSE],
      [text |-> <<"{", "a">>, invalid |-> TRUE] }

\* values passed to send() as body: {"a":"b"} and {"a":"é"}, and two values on
\* which JSON.stringify throws, with the messages 'bad' and 'é'
Bodies ==
    { [throws |-> FALSE, text |-> <<"{", "\"", "a", "\"", ":", "\"", "b", "\"", "}">>],
      [throws |-> FALSE, text |-> <<"{", "\"", "a", "\"", ":", "\"", "é", "\"", "}">>],
      [throws |-> TRUE, text |-> <<"b", "a", "d">>],
      [throws |-> TRUE, text |-> <<"é">>] }

\* statuses passed to send()
Statuses == {201, 404}

\* values a listener may throw: an Error with a message, or a bare string
Errors == { [isError |-> TRUE, text |-> "boom"], [isError |-> FALSE, text |-> "oops"] }

-----------------------------------------------------------------------------
(* String helpers *)

Reverse(str) == [i \in 1..Len(str) |-> str[Len(str) + 1 - i]]

TrimStart(str, char) ==
    LET keep == {i \in 1..Len(str) : str[i] # char}
    IN  IF keep = {} THEN <<>>
        ELSE SubSeq(str, CHOOSE i \in keep : \A j \in keep : i <= j, Len(str))

TrimEnd(str, char) == Reverse(TrimStart(Reverse(str), char))

Trim(str, char) == TrimEnd(TrimStart(str, char), char)

RECURSIVE Split(_, _)
Split(str, sep) ==
    LET at == {i \in 1..Len(str) : str[i] = sep}
    IN  IF at = {} THEN <<str>>
        ELSE LET first == CHOOSE i \in at : \A j \in at : i <= j
             IN  <<SubSeq(str, 1, first - 1)>> \o Split(SubSeq(str, first + 1, Len(str)), sep)

Includes(str, char) == \E i \in 1..Len(str) : str[i] = char

StartsWith(str, char) == Len(str) > 0 /\ str[1] = char

Substring(str, from) == SubSeq(str, from + 1, Len(str))

-----------------------------------------------------------------------------
(* The path matcher of #handleRequest *)

\* no value passed to send() yet
NoValue == [throws |-> FALSE, text |-> <<>>]

\* the value of pathEntries[index] past the end of the array
Undefined == <<"undefined">>

\* request.params before any assignment to it
NoParams == [set |-> FALSE, map |-> {}]

PathEntries(path) == Split(Trim(path, "/"), "/")

RequestPathEntry(pathEntries, index) ==
    IF index <= Len(pathEntries) THEN pathEntries[index] ELSE Undefined

\* (variant: no exception for a path with an asterisk)
LengthMismatchM(path, pathEntries) ==
    Len(pathEntries) # Len(PathEntries(path))

\* the length test at the head of the filter callback
LengthMismatch(path, pathEntries) ==
    Len(pathEntries) # Len(PathEntries(path)) /\ ~Includes(path, "*")

\* (variant: a ':name' segment needs a request segment at its index)
EntryMatchesM(listenerPathEntry, pathEntries, index) ==
    IF StartsWith(listenerPathEntry, ":") THEN index <= Len(pathEntries)
    ELSE IF listenerPathEntry = <<"*">> THEN TRUE
    ELSE index <= Len(pathEntries) /\ listenerPathEntry = pathEntries[index]

\* the callback of listenerPathEntries.every
EntryMatches(listenerPathEntry, pathEntries, index) ==
    IF StartsWith(listenerPathEntry, ":") THEN TRUE
    ELSE IF listenerPathEntry = <<"*">> THEN TRUE
    ELSE index <= Len(pathEntries) /\ listenerPathEntry = pathEntries[index]

IsMatched(path, pathEntries) ==
    LET listenerPathEntries == PathEntries(path)
    IN  /\ ~LengthMismatch(path, pathEntries)
        /\ \A index \in 1..Len(listenerPathEntries) :
                EntryMatches(listenerPathEntries[index], pathEntries, index)

ParamsPut(map, name, value) == {pr \in map : pr[1] # name} \cup {<<name, value>>}

RECURSIVE CaptureUpTo(_, _, _)
CaptureUpTo(listenerPathEntries, pathEntries, n) ==
    IF n = 0 THEN {}
    ELSE LET before == CaptureUpTo(listenerPathEntries, pathEntries, n - 1)
             entry == listenerPathEntries[n]
         IN  IF StartsWith(entry, ":")
             THEN ParamsPut(before, Substring(entry, 1), RequestPathEntry(pathEntries, n))
             ELSE before

Captured(path, pathEntries) ==
    CaptureUpTo(PathEntries(path), pathEntries, Len(PathEntries(path)))

\* indices of the entries of a method's Map that the filter keeps
PathListenersEntry(methodListeners, pathEntries) ==
    {i \in 1..Len(methodListeners) : IsMatched(methodListeners[i].path, pathEntries)}

\* the scratch map `params` when every() returns: every() stops at the first
\* segment that fails, with the captures made up to there
Scratch(path, pathEntries) ==
    LET listenerPathEntries == PathEntries(path)
        failing == {index \in 1..Len(listenerPathEntries) :
                        ~EntryMatches(listenerPathEntries[index], pathEntries, index)}
        reached == IF failing = {} THEN Len(listenerPathEntries)
                   ELSE CHOOSE index \in failing : \A j \in failing : index <= j
    IN  CaptureUpTo(listenerPathEntries, pathEntries, reached)

\* (variant: the scratch map is written to the context after every attempt)
CommitsM(path, pathEntries) == ~LengthMismatch(path, pathEntries)

\* `if (isMatched) context.request.params = params`
Commits(path, pathEntries) == IsMatched(path, pathEntries)

\* (variant: the captures of a matching pattern are added to those of the
\* patterns that matched before it)
RECURSIVE ParamsAfterM(_, _, _)
ParamsAfterM(methodListeners, pathEntries, n) ==
    IF n = 0 THEN NoParams
    ELSE LET before == ParamsAfterM(methodListeners, pathEntries, n - 1)
             params == Scratch(methodListeners[n].path, pathEntries)
         IN  IF Commits(methodListeners[n].path, pathEntries)
             THEN [set |-> TRUE,
                   map |-> {pr \in before.map : \A qr \in params : qr[1] # pr[1]}
                              \cup params]
             ELSE before

\* request.params after the filter callback ran over the first n entries
RECURSIVE ParamsAfter(_, _, _)
ParamsAfter(methodListeners, pathEntries, n) ==
    IF n = 0 THEN NoParams
    ELSE IF Commits(methodListeners[n].path, pathEntries)
         THEN [set |-> TRUE, map |-> Scratch(methodListeners[n].path, pathEntries)]
         ELSE ParamsAfter(methodListeners, pathEntries, n - 1)

\* request.params after the filter
CommittedParams(methodListeners, pathEntries) ==
    ParamsAfter(methodListeners, pathEntries, Len(methodListeners))

-----------------------------------------------------------------------------
(* The route table and the middleware registry *)

\* the keys of #listeners, in the order the constructor inserts them
MethodOrder == <<"GET", "POST", "PUT", "DELETE", "PATCH">>

Methods == {MethodOrder[i] : i \in 1..Len(MethodOrder)}

\* the listeners passed by registration call number c: fresh functions
NewListeners(c, n) == [k \in 1..n |-> 10 * c + k]

\* the registration call that passed listener l
CallOf(l) == l \div 10

HasPath(methodListeners, path) ==
    \E i \in 1..Len(methodListeners) : methodListeners[i].path = path

GetPath(methodListeners, path) ==
    LET i == CHOOSE j \in 1..Len(methodListeners) : methodListeners[j].path = path
    IN  methodListeners[i].id

\* a registry value: the arrays, the route table and the middleware array
Registry == [lists |-> lists, listeners |-> listeners, middleware |-> middleware]

\* a new array object holding ls; its identity is its index in lists
NewArray(R, ls) == [R EXCEPT !.lists = Append(@, ls)]

\* (variant: the new listeners replace the list of an existing path)
RegisterListenerM(R, method, path, id) ==
    IF HasPath(R.listeners[method], path)
    THEN [R EXCEPT !.lists[GetPath(R.listeners[method], path)] = R.lists[id]]
    ELSE [R EXCEPT !.listeners[method] = Append(@, [path |-> path, id |-> id])]

\* #registerListener(method, path, listeners), listeners being array number id
RegisterListener(R, method, path, id) ==
    IF HasPath(R.listeners[method], path)
    THEN [R EXCEPT !.lists[GetPath(R.listeners[method], path)] = @ \o R.lists[id]]
    ELSE [R EXCEPT !.listeners[method] = Append(@, [path |-> path, id |-> id])]

\* (variant: the array stored in the route table is pushed instead)
RegisteredUnitM(R, method, path, id) ==
    [arr |-> TRUE, fn |-> 0, id |-> GetPath(R.listeners[method], path)]

\* the element #registerMethod pushes to #middleware: its listeners argument
RegisteredUnit(R, method, path, id) == [arr |-> TRUE, fn |-> 0, id |-> id]

\* #registerMiddleware(middleware)
RegisterMiddleware(R, unit) == [R EXCEPT !.middleware = Append(@, unit)]

\* (variant: the pattern is registered for the first method only)
RegisterForAllM(R, n, path, id) == RegisterListener(R, MethodOrder[1], path, id)

\* the loop of all() over the keys of #listeners
RECURSIVE RegisterForAll(_, _, _, _)
RegisterForAll(R, n, path, id) ==
    IF n = 0 THEN R
    ELSE RegisterListener(RegisterForAll(R, n - 1, path, id), MethodOrder[n], path, id)

Store(R, call) ==
    /\ lists' = R.lists
    /\ listeners' = R.listeners
    /\ middleware' = R.middleware
    /\ calls' = Append(calls, call)

\* use(listener) on registry R
UseOn(R, ls) == RegisterMiddleware(R, [arr |-> FALSE, fn |-> ls[1], id |-> 0])

\* use([listener, ...]) on registry R
UseArrayOn(R, ls) ==
    LET R1 == NewArray(R, ls)
    IN  RegisterMiddleware(R1, [arr |-> TRUE, fn |-> 0, id |-> Len(R1.lists)])

\* the test #registerMethod makes first: no entry of #listeners for the method
MethodNotSupported(R, method) == method \notin DOMAIN R.listeners

\* (variant: the listeners are pushed to #middleware before the method is tested)
RegisterMethodOnM(R, method, path, ls) ==
    LET R1 == NewArray(R, ls)
        id == Len(R1.lists)
        R2 == RegisterMiddleware(R1, [arr |-> TRUE, fn |-> 0, id |-> id])
    IN  IF MethodNotSupported(R, method) THEN R2
        ELSE RegisterListener(R2, method, path, id)

\* #registerMethod(method, path, listeners) on registry R; a throw leaves R
RegisterMethodOn(R, method, path, ls) ==
    IF MethodNotSupported(R, method) THEN R
    ELSE LET R1 == NewArray(R, ls)
             id == Len(R1.lists)
             R2 == RegisterListener(R1, method, path, id)
         IN  RegisterMiddleware(R2, RegisteredUnit(R2, method, path, id))

\* all(path, ...listeners) on registry R
AllOn(R, path, ls) ==
    LET R1 == NewArray(R, ls)
        id == Len(R1.lists)
        R2 == RegisterForAll(R1, Len(MethodOrder), path, id)
    IN  RegisterMiddleware(R2, [arr |-> TRUE, fn |-> 0, id |-> id])

\* use(listener)
Use ==
    /\ LET c == Len(calls) + 1
           ls == NewListeners(c, 1)
       IN  Store(UseOn(Registry, ls),
                 [op |-> "use", method |-> "", path |-> <<>>, ls |-> ls])
    /\ UNCHANGED <<errorHandler, notFoundHandler, req>>

\* use([listener, ...]): the Middleware type admits an array
UseArray(n) ==
    /\ LET c == Len(calls) + 1
           ls == NewListeners(c, n)
       IN  Store(UseArrayOn(Registry, ls),
                 [op |-> "useArray", method |-> "", path |-> <<>>, ls |-> ls])
    /\ UNCHANGED <<errorHandler, notFoundHandler, req>>

\* get / post / put / delete / patch (path, ...listeners)
RegisterMethod(method, path, n) ==
    /\ LET c == Len(calls) + 1
           ls == NewListeners(c, n)
       IN  Store(RegisterMethodOn(Registry, method, path, ls),
                 [op |-> IF MethodNotSupported(Registry, method) THEN "routeThrew" ELSE "route",
                  method |-> method, path |-> path, ls |-> ls])
    /\ UNCHANGED <<errorHandler, notFoundHandler, req>>

\* all(path, ...listeners)
All(path, n) ==
    /\ LET c == Len(calls) + 1
           ls == NewListeners(c, n)
       IN  Store(AllOn(Registry, path, ls),
                 [op |-> "all", method |-> "", path |-> path, ls |-> ls])
    /\ UNCHANGED <<errorHandler, notFoundHandler, req>>

\* error(handler)
SetErrorHandler ==
    /\ errorHandler' = TRUE
    /\ calls' = Append(calls, [op |-> "error", method |-> "", path |-> <<>>, ls |-> <<>>])
    /\ UNCHANGED <<lists, listeners, middleware, notFoundHandler, req>>

\* notFound(handler)
SetNotFoundHandler ==
    /\ notFoundHandler' = TRUE
    /\ calls' = Append(calls, [op |-> "notFound", method |-> "", path |-> <<>>, ls |-> <<>>])
    /\ UNCHANGED <<lists, listeners, middleware, errorHandler, req>>

-----------------------------------------------------------------------------
(* The response and the handlers *)

NoError == [isError |-> FALSE, text |-> ""]

\* `{ "error": "Not found" }` (rest.d.ts line 345)
NotFoundBody ==
    <<"{", " ", "\"", "e", "r", "r", "o", "r", "\"", ":", " ",
      "\"", "N", "o", "t", " ", "f", "o", "u", "n", "d", "\"", " ", "}">>

\* (variant: the body does not carry the message)
ErrorBodyM(error) ==
    <<"{", " ", "\"", "e", "r", "r", "o", "r", "\"", ":", " ", "\"", "error", "\"", " ", "}">>

\* `{ "error": "${message}" }` (rest.d.ts lines 250-252): the prefix, the message
\* (error.message of an Error, the thrown value itself otherwise), the suffix
ErrorBody(error) ==
    <<"{", " ", "\"", "e", "r", "r", "o", "r", "\"", ":", " ", "\"", error.text, "\"", " ", "}">>

\* what a listener or a custom handler writes when it answers the request
ListenerBody == <<"{", "}">>

\* a value passed to send() as body: JSON.stringify either returns its text or
\* throws an error with a message
ListenerValue == [throws |-> FALSE, text |-> ListenerBody]

\* the number of bytes of a character in UTF-8
Utf8Length(char) == IF char \in {"\"", "{", "}", ":", " ", "a", "b", "d", "e", "o", "r"} THEN 1 ELSE 2

\* Buffer.byteLength(json)
RECURSIVE ByteLength(_)
ByteLength(str) ==
    IF str = <<>> THEN 0 ELSE Utf8Length(Head(str)) + ByteLength(Tail(str))

\* `{"error": "${message}"}` (sendJson)
StringifyErrorBody(message) ==
    <<"{", "\"", "e", "r", "r", "o", "r", "\"", ":", " ", "\"">> \o message \o <<"\"", "}">>

\* (variant, the sendJson of src/src/helpers.js: the status passed is written
\* also when JSON.stringify threw)
SendJsonM(q, body, status) ==
    LET json == IF body.throws THEN StringifyErrorBody(body.text) ELSE body.text
    IN  [q EXCEPT !.status = status, !.body = json, !.ended = TRUE,
                  !.contentType = "application/json",
                  !.contentLength = ByteLength(json)]

\* sendJson(response, body, status): writeHead and end
SendJson(q, body, status) ==
    LET json == IF body.throws THEN StringifyErrorBody(body.text) ELSE body.text
    IN  [q EXCEPT !.status = IF body.throws THEN 500 ELSE status,
                  !.body = json, !.ended = TRUE,
                  !.contentType = "application/json",
                  !.contentLength = ByteLength(json)]

\* the default of the status parameter of sendJson
DefaultStatus == 200

\* what writeHead throws once the response has been ended
HeadersSent == [isError |-> TRUE, text |-> "headers sent"]

\* response.end(data) / response.send(body, status): a second end writes nothing
End(q, body) ==
    IF q.ended THEN q ELSE [q EXCEPT !.body = body, !.ended = TRUE]

\* response.send(body, status) on a response that may have been ended: the
\* callers take the case of an ended response, in which writeHead throws
Send(q, status, body) ==
    IF q.ended THEN q ELSE SendJson(q, body, status)

\* what a custom error / not-found handler does: answer the request, nothing,
\* or throw
HandlerBehaviours == {"send", "none", "throw"}

\* the call of a custom handler: it is not awaited and not inside a try block, so
\* what it throws leaves #handleRequest as the rejection of its promise
HandlerEffect(q, hb) ==
    CASE hb = "send" /\ ~q.ended -> Send(q, 500, ListenerValue)
      [] hb = "send" /\ q.ended  -> [q EXCEPT !.escaped = TRUE]
      [] hb = "throw" -> [q EXCEPT !.escaped = TRUE]
      [] OTHER        -> q

\* new Error('not found')
NotFoundError == [isError |-> TRUE, text |-> "not found"]

\* (variant: the handler is not given the context of the request)
NotFoundHandlerArgsM(r) == <<0, NotFoundError>>

\* the arguments of this.#notFoundHandler(context, new Error('not found'))
NotFoundHandlerArgs(r) == <<r, NotFoundError>>

\* (variant: the handler is given the error alone)
ErrorHandlerArgsM(r, error) == <<error>>

\* the arguments of this.#errorHandler(ctx, error); a context is named by its request
ErrorHandlerArgs(r, error) == <<r, error>>

\* the catch block of #iterateOverMiddleware, up to its `return`
Catch(q, r, error, hb) ==
    LET q1 == [q EXCEPT !.caughtAt = Len(q.trace)]
    IN  IF errorHandler
        THEN HandlerEffect([q1 EXCEPT !.errCalls = Append(@, ErrorHandlerArgs(r, error))], hb)
        ELSE End([q1 EXCEPT !.status = 500, !.defaulted = @ + 1], ErrorBody(error))

-----------------------------------------------------------------------------
(* The continuation protocol: createMiddlewareGenerator and *)
(* #iterateOverMiddleware                                                  *)

\* what a listener does before its first suspension: call next() some number
\* of times, answer the request, and then return, throw, or return a promise that
\* is still pending
SyncBehaviours ==
    [next : 0..MaxNextCalls, send : BOOLEAN, out : {"return", "pending"}, err : {NoError}]
        \cup [next : 0..MaxNextCalls, send : BOOLEAN, out : {"throw"}, err : Errors]

\* applyNext over the filtered middleware: a copy of every unit taken at dispatch
Unit(R, m) == [arr |-> m.arr, ls |-> IF m.arr THEN R.lists[m.id] ELSE <<m.fn>>]

\* (variant: only the first matching entry is looked at)
KeepsUnitM(m, pathListeners) ==
    \/ ~m.arr
    \/ \E i \in 1..Len(pathListeners) :
            pathListeners[i] = m.id /\ \A j \in 1..Len(pathListeners) : i <= j

\* the filter over #middleware for a request of a supported method
KeepsUnit(m, pathListeners) ==
    \/ ~m.arr
    \/ \E i \in 1..Len(pathListeners) : pathListeners[i] = m.id

\* pathListenersEntry.map(entry => entry[1]), in the order of the method's Map
PathListeners(methodListeners, pathEntries) ==
    LET Matches(entry) == IsMatched(entry.path, pathEntries)
        pathListenersEntry == SelectSeq(methodListeners, Matches)
    IN  [i \in 1..Len(pathListenersEntry) |-> pathListenersEntry[i].id]

\* (variant: every method outside the route table is served as OPTIONS is)
BranchOtherM(method, hit) ==
    IF method \in DOMAIN listeners
    THEN IF hit # {} THEN "route" ELSE "notFound"
    ELSE "global"

\* (variant: the pipeline is run whether or not an entry matched)
BranchM(method, hit) ==
    IF method \in DOMAIN listeners THEN "route"
    ELSE IF method = "OPTIONS" \/ method = "HEAD" THEN "global"
    ELSE "none"

\* which branch of #handleRequest a request takes
Branch(method, hit) ==
    IF method \in DOMAIN listeners
    THEN IF hit # {} THEN "route" ELSE "notFound"
    ELSE IF method = "OPTIONS" \/ method = "HEAD" THEN "global"
    ELSE "none"

\* (variant: every unit of #middleware is kept)
KeepsGlobalM(m) == TRUE

\* the filter over #middleware for an OPTIONS or HEAD request
KeepsGlobal(m) == ~m.arr

\* middleware.map(m => helpers.applyNext(m)) over the units kept
Snapshot(units) == [i \in 1..Len(units) |-> Unit(Registry, units[i])]

\* the pipeline of a request of a supported method that matched, over registry R
RoutePipeline(R, method, path) ==
    LET pathListeners == PathListeners(R.listeners[method], PathEntries(path))
        KeepRoute(m) == KeepsUnit(m, pathListeners)
        kept == SelectSeq(R.middleware, KeepRoute)
    IN  [i \in 1..Len(kept) |-> Unit(R, kept[i])]

\* (variant: the generator filters the registry anew each time it is resumed)
IteratedMiddlewareM(q) ==
    IF q.method \in Methods THEN RoutePipeline(Registry, q.method, q.path)
    ELSE q.pipeline

\* the array the generator of a request iterates: the result of
\* middleware.map(m => helpers.applyNext(m)), made once when the dispatch starts
IteratedMiddleware(q) == q.pipeline

\* (variant: after the last listener of an array the inner loop starts again)
NextPosM(pipeline, ui, li) ==
    IF ui >= 1 /\ pipeline[ui].arr
    THEN <<ui, (li % Len(pipeline[ui].ls)) + 1>>
    ELSE LET later == {u \in (ui + 1)..Len(pipeline) : Len(pipeline[u].ls) > 0}
         IN  IF later = {} THEN <<0, 0>>
             ELSE <<CHOOSE u \in later : \A v \in later : u <= v, 1>>

\* the position the generator's loops reach next; <<0, 0>> when they are exhausted
NextPos(pipeline, ui, li) ==
    IF ui >= 1 /\ pipeline[ui].arr /\ li < Len(pipeline[ui].ls)
    THEN <<ui, li + 1>>
    ELSE LET later == {u \in (ui + 1)..Len(pipeline) : Len(pipeline[u].ls) > 0}
         IN  IF later = {} THEN <<0, 0>>
             ELSE <<CHOOSE u \in later : \A v \in later : u <= v, 1>>

\* (variant: the check is missing after the yield of the array branch)
GeneratorStopsM(q) == q.finished /\ ~q.pipeline[q.ui].arr

\* `if (finished) return`, after the yield of either branch
GeneratorStops(q) == q.finished

\* (variant: one flag for every generator)
FlagScopeM(r) == Requests

\* the requests whose `finished` a next callback handed out for request r
\* assigns: `finished` and `next` are local to one call of the generator function
FlagScope(r) == {r}

\* (variant: the flag is not set again before a yield)
FlagBeforeYieldM == FALSE

\* `finished = true` before each yield
FlagBeforeYield == TRUE

\* (variant: every call of next() flips the flag)
NextEffectM(q) == [q EXCEPT !.finished = ~@]

\* next(): `finished = false`
NextEffect(q) == [q EXCEPT !.finished = FALSE]

\* n calls of next(), one after the other
RECURSIVE NextCalls(_, _)
NextCalls(q, n) == IF n = 0 THEN q ELSE NextEffect(NextCalls(q, n - 1))

\* fn(ctx): the listener's turn up to its first suspension
Invoke(q, r, b, hb) ==
    LET l  == IteratedMiddleware(q)[q.ui].ls[q.li]
        q1 == NextCalls([q EXCEPT !.trace = Append(@, l),
                                  !.ownNext = b.next > 0,
                                  !.keptNext = FALSE,
                                  !.nexts = b.next,
                                  !.inflight = @ + 1], b.next)
        sendThrows == b.send /\ q1.ended
        q2  == IF b.send THEN Send([q1 EXCEPT !.answered = TRUE], 200, ListenerValue) ELSE q1
        out == IF sendThrows THEN "throw" ELSE b.out
        err == IF sendThrows THEN HeadersSent ELSE b.err
    IN  CASE out = "return" ->
                [q2 EXCEPT !.pc = "settled", !.outcome = "resolved", !.inflight = @ - 1]
          [] out = "pending" ->
                [q2 EXCEPT !.pc = "running", !.outcome = "none"]
          [] out = "throw" ->
                [Catch([q2 EXCEPT !.inflight = @ - 1, !.err = err], r, err, hb)
                    EXCEPT !.pc = "returning", !.outcome = "threw", !.how = "error"]

\* one round of `for (const fn of middlewareGenerator)`: resume the generator and,
\* unless it is done, run the body up to the await
\* (variant: a pipeline that stops for want of a continue() call is reported
\* to the error handler)
IterateM(q, r, b, hb) ==
    IF q.ui > 0 /\ GeneratorStops(q)
    THEN [Catch(q, r, NoError, hb) EXCEPT !.pc = "returning", !.how = "stopped"]
    ELSE LET pos == NextPos(IteratedMiddleware(q), q.ui, q.li)
         IN  IF pos = <<0, 0>>
             THEN [q EXCEPT !.pc = "returning", !.how = "completed"]
             ELSE Invoke([q EXCEPT !.ui = pos[1], !.li = pos[2],
                                   !.finished = FlagBeforeYield], r, b, hb)

Iterate(q, r, b, hb) ==
    IF q.ui > 0 /\ GeneratorStops(q)
    THEN [q EXCEPT !.pc = "returning", !.how = "stopped"]
    ELSE LET pos == NextPos(IteratedMiddleware(q), q.ui, q.li)
         IN  IF pos = <<0, 0>>
             THEN [q EXCEPT !.pc = "returning", !.how = "completed"]
             ELSE Invoke([q EXCEPT !.ui = pos[1], !.li = pos[2],
                                   !.finished = FlagBeforeYield], r, b, hb)

\* (variant: the loop goes on without awaiting the listener)
AwaitedM(q) == q.pc \in {"running", "settled"}

\* `await fn(ctx)` has its value
Awaited(q) == q.pc = "settled"

-----------------------------------------------------------------------------
(* The dispatcher: #handleRequest *)

\* a request before the server hands it to #handleRequest; the response of
\* node:http starts with statusCode 200 and nothing written
\* `const [path, query] = url.split('?')`: the first two pieces of the split
UrlPath(url) == Split(url, "?")[1]

\* request.query = query ?? ''
UrlQuery(url) ==
    LET pieces == Split(url, "?")
    IN  IF Len(pieces) >= 2 THEN pieces[2] ELSE <<>>

\* parseQuery(query): `const [key, value] = param.split('=')` for the pieces of
\* query.split('&'), in order, a later key overwriting an equal earlier one
RECURSIVE ParseQueryUpTo(_, _)
ParseQueryUpTo(params, n) ==
    IF n = 0 THEN {}
    ELSE LET pieces == Split(params[n], "=")
             value == IF Len(pieces) >= 2 THEN pieces[2] ELSE Undefined
         IN  ParamsPut(ParseQueryUpTo(params, n - 1), pieces[1], value)

ParseQuery(query) == ParseQueryUpTo(Split(query, "&"), Len(Split(query, "&")))

\* request.queryParams
QueryParams(query) == IF Len(query) > 0 THEN ParseQuery(query) ELSE {}

NewRequest ==
    [pc |-> "new", method |-> "", url |-> <<>>, path |-> <<>>, query |-> <<>>,
     queryParams |-> {}, params |-> NoParams,
     headers |-> "", data |-> [text |-> <<>>, invalid |-> TRUE], callsAt |-> 0,
     requestBody |-> [set |-> FALSE, text |-> <<>>],
     pipeline |-> <<>>, ui |-> 0, li |-> 0, finished |-> FALSE,
     outcome |-> "none", err |-> NoError,
     status |-> 200, body |-> <<>>, ended |-> FALSE,
     \* history of the request, for the properties
     trace |-> <<>>, ownNext |-> FALSE, keptNext |-> FALSE, quiet |-> 0,
     inflight |-> 0, how |-> "", errCalls |-> <<>>, nfCalls |-> <<>>,
     caughtAt |-> 0, defaulted |-> 0, routed |-> {}, answered |-> FALSE,
     escaped |-> FALSE, nexts |-> 0,
     contentType |-> "", contentLength |-> 0, sentBody |-> NoValue, sentStatus |-> 0]

\* #handleRequest up to its first suspension
HandleRequest(r, method, url, b, hb) ==
    LET path == UrlPath(url)
        q0 == [NewRequest EXCEPT !.method = method, !.url = url, !.path = path,
                                 !.callsAt = Len(calls),
                                 !.query = UrlQuery(url),
                                 !.queryParams = QueryParams(UrlQuery(url))]
        methodListeners == IF method \in DOMAIN listeners THEN listeners[method] ELSE <<>>
        pathEntries == PathEntries(path)
        hit == PathListenersEntry(methodListeners, pathEntries)
        branch == Branch(method, hit)
    IN  CASE branch = "route" ->
                Iterate([q0 EXCEPT !.params = CommittedParams(methodListeners, pathEntries),
                                   !.routed = hit,
                                   !.pipeline = RoutePipeline(Registry, method, path)],
                        r, b, hb)
          [] branch = "notFound" ->
                IF notFoundHandler
                THEN HandlerEffect([q0 EXCEPT !.pc = "done", !.how = "notFound",
                                              !.nfCalls = Append(@, NotFoundHandlerArgs(r))], hb)
                ELSE End([q0 EXCEPT !.pc = "done", !.how = "notFound", !.status = 404],
                         NotFoundBody)
          [] branch = "global" ->
                Iterate([q0 EXCEPT !.status = 200,
                                   !.pipeline = Snapshot(SelectSeq(middleware, KeepsGlobal))],
                        r, b, hb)
          [] OTHER -> [q0 EXCEPT !.pc = "done", !.how = "unsupported"]

\* the server calls #handleRequest for an incoming request
Dispatch(r, method, url, b, hb) ==
    /\ req[r].pc = "new"
    /\ req' = [req EXCEPT ![r] = HandleRequest(r, method, url, b, hb)]
    /\ UNCHANGED registryVars

\* a suspended listener calls the next callback: its own (it was passed to every
\* listener of the request), or one kept by a listener that ran earlier
ListenerNext(r, who) ==
    /\ req[r].pc = "running"
    /\ who = "kept" => Len(req[r].trace) >= 2
    /\ req[r].nexts < MaxNextCalls
    /\ req' = [x \in Requests |->
                LET q == IF x \in FlagScope(r) THEN NextEffect(req[x]) ELSE req[x]
                IN  IF x # r THEN q
                    ELSE [q EXCEPT !.nexts = @ + 1,
                                   !.ownNext = IF who = "own" THEN TRUE ELSE @,
                                   !.keptNext = IF who = "kept" THEN TRUE ELSE @]]
    /\ UNCHANGED registryVars

\* a suspended listener answers the request
ListenerSend(r) ==
    /\ req[r].pc = "running"
    /\ ~req[r].ended
    /\ req' = [req EXCEPT ![r] = Send([@ EXCEPT !.answered = TRUE], 200, ListenerValue)]
    /\ UNCHANGED registryVars

\* a suspended listener calls response.send(body, status)
ListenerSendWith(r, body, status) ==
    /\ req[r].pc = "running"
    /\ ~req[r].ended
    /\ req' = [req EXCEPT ![r] = Send([@ EXCEPT !.answered = TRUE,
                                                 !.sentBody = body,
                                                 !.sentStatus = status], status, body)]
    /\ UNCHANGED registryVars

\* the listener registered by the first call, use(parseBodyMiddleware)
ParseBodyListener == NewListeners(1, 1)[1]

\* req.headers['content-type'] ?? 'plain/text'
HeaderContentType(headers) == IF headers = "" THEN "plain/text" ELSE headers

\* the requests of which parseBodyMiddleware awaits readData
ReadsBody(method, contentType) ==
    /\ method \in {"POST", "PUT", "PATCH"}
    /\ contentType \in {"application/json", "plain/text"}

\* parseBodyMiddleware up to its first suspension: it awaits the data, or calls
\* next() and returns
ParseBodyTurn(method, headers) ==
    IF ReadsBody(method, HeaderContentType(headers))
    THEN [next |-> 0, send |-> FALSE, out |-> "pending", err |-> NoError]
    ELSE [next |-> 1, send |-> FALSE, out |-> "return", err |-> NoError]

\* the error JSON.parse throws
SyntaxError == [isError |-> TRUE, text |-> "Unexpected token"]

\* (variant: a text JSON.parse rejects is kept as the body)
ParsedBodyM(contentType, data) == [throws |-> FALSE, body |-> data.text]

\* the value assigned to ctx.request.body once the data are read
ParsedBody(contentType, data) ==
    IF contentType = "application/json"
    THEN IF data.text = <<>> THEN [throws |-> FALSE, body |-> <<"{", "}">>]
         ELSE [throws |-> data.invalid, body |-> data.text]
    ELSE [throws |-> FALSE, body |-> data.text]

\* the server calls #handleRequest for a request with headers and a body, the
\* first listener of the application being parseBodyMiddleware
DispatchWithBody(r, method, url, headers, data, hb) ==
    /\ req[r].pc = "new"
    /\ req' = [req EXCEPT ![r] =
                [HandleRequest(r, method, url, ParseBodyTurn(method, headers), hb)
                    EXCEPT !.headers = headers, !.data = data]]
    /\ UNCHANGED registryVars

\* parseBodyMiddleware after `await readData(req)`: the body is assigned and
\* next() called, or JSON.parse throws and the promise is rejected
ParseBodyAfterData(r) ==
    /\ req[r].pc = "running"
    /\ req[r].pipeline[req[r].ui].ls[req[r].li] = ParseBodyListener
    /\ LET q == req[r]
           parsed == ParsedBody(HeaderContentType(q.headers), q.data)
       IN  req' = [req EXCEPT ![r] =
                IF parsed.throws
                THEN [q EXCEPT !.pc = "settled", !.outcome = "rejected",
                               !.err = SyntaxError, !.inflight = @ - 1]
                ELSE [NextEffect(q) EXCEPT
                               !.requestBody = [set |-> TRUE, text |-> parsed.body],
                               !.nexts = @ + 1, !.ownNext = TRUE,
                               !.pc = "settled", !.outcome = "resolved",
                               !.inflight = @ - 1]]
    /\ UNCHANGED registryVars

\* the promise a listener returned is resolved or rejected
Settle(r, outcome, error) ==
    /\ req[r].pc = "running"
    /\ req' = [req EXCEPT ![r].pc = "settled",
                          ![r].outcome = outcome,
                          ![r].err = error,
                          ![r].inflight = @ - 1]
    /\ UNCHANGED registryVars

\* #iterateOverMiddleware continues after `await fn(ctx)`
Resume(r, b, hb) ==
    /\ Awaited(req[r])
    /\ LET q  == req[r]
           q1 == [q EXCEPT !.quiet = IF ~q.ownNext /\ ~q.keptNext /\ q.outcome = "resolved"
                                     THEN Len(q.trace) ELSE @]
       IN  req' = [req EXCEPT ![r] =
                IF q.outcome = "rejected"
                THEN [Catch(q1, r, q.err, hb) EXCEPT !.pc = "returning", !.how = "error"]
                ELSE Iterate(q1, r, b, hb)]
    /\ UNCHANGED registryVars

\* #handleRequest continues after `await this.#iterateOverMiddleware(...)`, or
\* is left by the exception that came out of it
Return(r) ==
    /\ req[r].pc = "returning"
    /\ req' = [req EXCEPT ![r] =
            IF (@.method = "OPTIONS" \/ @.method = "HEAD") /\ ~@.escaped
            THEN End([@ EXCEPT !.pc = "done"], <<>>)
            ELSE [@ EXCEPT !.pc = "done"]]
    /\ UNCHANGED registryVars

-----------------------------------------------------------------------------
(* Specification Spec: any registration calls during setup, then a request *)
(* whose listeners are synchronous: each continues, answers and stops, or  *)
(* throws                                                                  *)

Init ==
    /\ lists = <<>>
    /\ listeners = [m \in Methods |-> <<>>]
    /\ middleware = <<>>
    /\ errorHandler = FALSE
    /\ notFoundHandler = FALSE
    /\ calls = <<>>
    /\ req = [r \in Requests |-> NewRequest]

Setup == \A r \in Requests : req[r].pc = "new"

SimpleBehaviours ==
    { [next |-> 1, send |-> FALSE, out |-> "return", err |-> NoError],
      [next |-> 0, send |-> TRUE, out |-> "return", err |-> NoError],
      [next |-> 0, send |-> FALSE, out |-> "throw",
       err |-> [isError |-> TRUE, text |-> "boom"]] }

CanRegister == Len(calls) < MaxRegs /\ Setup

Register ==
    \/ CanRegister /\ Use
    \/ CanRegister /\ UseArray(1)
    \/ \E method \in RegMethods, path \in RegPaths, n \in ListenerCounts :
            CanRegister /\ RegisterMethod(method, path, n)
    \/ \E path \in RegPaths : CanRegister /\ All(path, 1)
    \/ CanRegister /\ SetErrorHandler
    \/ CanRegister /\ SetNotFoundHandler

ServeSimple(r) ==
    \/ \E method \in ReqMethods, path \in ReqPaths, b \in SimpleBehaviours :
            Dispatch(r, method, path, b, "send")
    \/ \E b \in SimpleBehaviours : Resume(r, b, "send")
    \/ Return(r)

Next ==
    \/ Register
    \/ \E r \in FirstRequest : ServeSimple(r)

Spec == Init /\ [][Next]_vars

-----------------------------------------------------------------------------
(* Specification SpecEngine: a fixed application                           *)
(*     use(u); get('/a', a1, a2); all('/*', s); use(v)                     *)
(* with or without error and not-found handlers, then a request whose      *)
(* listeners may suspend, call next() late, answer, resolve or reject      *)

ScriptDone == Len(calls) >= 4

Script ==
    \/ Setup /\ Len(calls) = 0 /\ Use
    \/ Setup /\ Len(calls) = 1 /\ RegisterMethod("GET", <<"/", "a">>, 2)
    \/ Setup /\ Len(calls) = 2 /\ All(<<"/", "*">>, 1)
    \/ Setup /\ Len(calls) = 3 /\ Use
    \/ Setup /\ ScriptDone /\ ~errorHandler /\ ~notFoundHandler /\ SetErrorHandler
    \/ Setup /\ ScriptDone /\ ~notFoundHandler /\ SetNotFoundHandler

Serve(r) ==
    \/ \E method \in ReqMethods, path \in ReqPaths, b \in SyncBehaviours, hb \in HandlerBehaviours :
            ScriptDone /\ Dispatch(r, method, path, b, hb)
    \/ ListenerNext(r, "own")
    \/ ListenerNext(r, "kept")
    \/ ListenerSend(r)
    \/ Settle(r, "resolved", NoError)
    \/ \E error \in Errors : Settle(r, "rejected", error)
    \/ \E b \in SyncBehaviours, hb \in HandlerBehaviours : Resume(r, b, hb)
    \/ Return(r)

NextEngine ==
    \/ Script
    \/ \E r \in FirstRequest : Serve(r)

SpecEngine == Init /\ [][NextEngine]_vars

-----------------------------------------------------------------------------
(* Specification SpecMatch: GET routes over a richer set of patterns, then *)
(* a GET request over a richer set of paths, every listener continuing     *)

Continues == [next |-> 1, send |-> FALSE, out |-> "return", err |-> NoError]

ServeMatch(r) ==
    \/ \E path \in MatchPaths : Dispatch(r, "GET", path, Continues, "send")
    \/ Resume(r, Continues, "send")
    \/ Return(r)

NextMatch ==
    \/ \E path \in MatchPatterns :
            Len(calls) < MatchRegs /\ Setup /\ RegisterMethod("GET", path, 1)
    \/ \E r \in FirstRequest : ServeMatch(r)

SpecMatch == Init /\ [][NextMatch]_vars

-----------------------------------------------------------------------------
(* Specification SpecConcurrent: the application of SpecEngine without       *)
(* handlers, then two GET requests in flight together; listeners continue   *)
(* or not, return or suspend and resolve. Once the second request has been  *)
(* dispatched its steps are taken fairly: its listeners settle and the      *)
(* event loop runs its continuations. Nothing is assumed of the first       *)
(* request.                                                                 *)

ConcurrentBehaviours ==
    [next : {0, 1}, send : {FALSE}, out : {"return", "pending"}, err : {NoError}]

ScriptStart == ~ScriptDone /\ Script

Arrive(r) ==
    \E path \in ReqPaths, b \in ConcurrentBehaviours :
        ScriptDone /\ Dispatch(r, "GET", path, b, "none")

Continue(r) == \E b \in ConcurrentBehaviours : Resume(r, b, "none")

ServeConcurrent(r) ==
    \/ Arrive(r)
    \/ ListenerNext(r, "own")
    \/ Settle(r, "resolved", NoError)
    \/ Continue(r)
    \/ Return(r)

NextConcurrent ==
    \/ ScriptStart
    \/ \E r \in Requests : ServeConcurrent(r)

SpecConcurrent ==
    /\ Init
    /\ [][NextConcurrent]_vars
    /\ WF_vars(Settle(2, "resolved", NoError))
    /\ WF_vars(Continue(2))
    /\ WF_vars(Return(2))

-----------------------------------------------------------------------------
(* Specification SpecAll: all(), get / post and use() calls, then a request *)
(* of any of the five methods, every listener continuing                   *)

\* a method #listeners has no entry for, and the pattern registered for it
UnsupportedMethods == {"TRACE"}
UnsupportedPaths == { <<"/", "a">> }

RegisterWithAll ==
    \/ \E path \in RegPaths, n \in ListenerCounts :
            Len(calls) < AllRegs /\ Setup /\ All(path, n)
    \/ \E method \in RegMethods, path \in RegPaths :
            Len(calls) < AllRegs /\ Setup /\ RegisterMethod(method, path, 1)
    \/ \E method \in UnsupportedMethods, path \in UnsupportedPaths :
            Len(calls) < AllRegs /\ Setup /\ RegisterMethod(method, path, 1)
    \/ Len(calls) < AllRegs /\ Setup /\ Use

ServeAll(r) ==
    \/ \E method \in Methods, path \in ReqPaths : Dispatch(r, method, path, Continues, "send")
    \/ Resume(r, Continues, "send")
    \/ Return(r)

NextAll ==
    \/ RegisterWithAll
    \/ \E r \in FirstRequest : ServeAll(r)

SpecAll == Init /\ [][NextAll]_vars

-----------------------------------------------------------------------------
(* Specification SpecSend: the application of SpecEngine without handlers,  *)
(* then a GET or OPTIONS request whose listeners suspend and may answer     *)
(* with send(body) or send(body, status)                                   *)

SuspendingBehaviours ==
    [next : {0, 1}, send : {FALSE}, out : {"pending"}, err : {NoError}]

ServeSend(r) ==
    \/ \E method \in {"GET", "OPTIONS"}, path \in ReqPaths, b \in SuspendingBehaviours :
            ScriptDone /\ Dispatch(r, method, path, b, "none")
    \/ \E body \in Bodies : ListenerSendWith(r, body, DefaultStatus)
    \/ \E body \in Bodies, status \in Statuses : ListenerSendWith(r, body, status)
    \/ ListenerNext(r, "own")
    \/ Settle(r, "resolved", NoError)
    \/ \E b \in SuspendingBehaviours : Resume(r, b, "none")
    \/ Return(r)

NextSend ==
    \/ ScriptStart
    \/ \E r \in FirstRequest : ServeSend(r)

SpecSend == Init /\ [][NextSend]_vars

-----------------------------------------------------------------------------
(* Specification SpecBody: use(parseBodyMiddleware), a route, a second use,  *)
(* optionally an error handler; then a request with headers and a body      *)

BodyScriptDone == Len(calls) >= 3

BodyScript ==
    \/ Setup /\ Len(calls) = 0 /\ Use
    \/ \E method \in {"POST", "PUT", "GET"} :
            Setup /\ Len(calls) = 1 /\ RegisterMethod(method, <<"/", "a">>, 1)
    \/ Setup /\ Len(calls) = 2 /\ Use
    \/ Setup /\ BodyScriptDone /\ ~errorHandler /\ SetErrorHandler

ServeBody(r) ==
    \/ \E method \in {"POST", "PUT", "GET"}, url \in ReqPaths,
          headers \in ContentTypes, data \in Datas, hb \in HandlerBehaviours :
            BodyScriptDone /\ DispatchWithBody(r, method, url, headers, data, hb)
    \/ ParseBodyAfterData(r)
    \/ \E b \in SimpleBehaviours, hb \in HandlerBehaviours : Resume(r, b, hb)
    \/ Return(r)

NextBody ==
    \/ BodyScript
    \/ \E r \in FirstRequest : ServeBody(r)

SpecBody == Init /\ [][NextBody]_vars

-----------------------------------------------------------------------------
(* Specification SpecSettling: SpecEngine with every promise a listener      *)
(* returned settled at some time and the continuations of the dispatcher's  *)
(* awaits run by the event loop                                             *)

Resumes(r) == \E b \in SyncBehaviours, hb \in HandlerBehaviours : Resume(r, b, hb)

SpecSettling ==
    /\ Init
    /\ [][NextEngine]_vars
    /\ \A r \in FirstRequest :
            /\ WF_vars(Settle(r, "resolved", NoError))
            /\ WF_vars(Resumes(r))
            /\ WF_vars(Return(r))

-----------------------------------------------------------------------------
(* Specification SpecLive: use and get('/a') calls, then two GET requests,   *)
(* the first with listeners that may suspend, while further use and get     *)
(* calls are made at any moment                                             *)

LiveReady == Len(calls) >= 2

LiveScript ==
    \/ Len(calls) = 0 /\ Use
    \/ Len(calls) = 1 /\ RegisterMethod("GET", <<"/", "a">>, 1)

RegisterLive ==
    \/ LiveReady /\ Len(calls) < LiveRegs /\ Use
    \/ \E path \in RegPaths :
            LiveReady /\ Len(calls) < LiveRegs /\ RegisterMethod("GET", path, 1)

ServeSuspending(r) ==
    \/ \E path \in ReqPaths, b \in ConcurrentBehaviours :
            LiveReady /\ Dispatch(r, "GET", path, b, "none")
    \/ ListenerNext(r, "own")
    \/ Settle(r, "resolved", NoError)
    \/ \E b \in ConcurrentBehaviours : Resume(r, b, "none")
    \/ Return(r)

ServeLater(r) ==
    \/ \E path \in ReqPaths : LiveReady /\ Dispatch(r, "GET", path, Continues, "none")
    \/ Resume(r, Continues, "none")
    \/ Return(r)

NextLive ==
    \/ LiveScript
    \/ RegisterLive
    \/ \E r \in FirstRequest : ServeSuspending(r)
    \/ \E r \in Requests \ FirstRequest : ServeLater(r)

SpecLive == Init /\ [][NextLive]_vars

-----------------------------------------------------------------------------
(* Specification SpecUrl: get and use calls, then a GET request whose URL    *)
(* may carry a query                                                         *)

RegisterForUrl ==
    \/ \E path \in RegPaths :
            Len(calls) < UrlRegs /\ Setup /\ RegisterMethod("GET", path, 1)
    \/ Len(calls) < UrlRegs /\ Setup /\ Use

ServeUrl(r) ==
    \/ \E url \in Urls : Dispatch(r, "GET", url, Continues, "send")
    \/ Resume(r, Continues, "send")
    \/ Return(r)

NextUrl ==
    \/ RegisterForUrl
    \/ \E r \in FirstRequest : ServeUrl(r)

SpecUrl == Init /\ [][NextUrl]_vars

-----------------------------------------------------------------------------
(* Properties *)

IsPrefix(s, t) == Len(s) <= Len(t) /\ \A i \in 1..Len(s) : s[i] = t[i]

Dispatched(r) == req[r].pc # "new"

Finished(r) == req[r].pc = "done"

\* C1: when the turn of a listener ends without any call of continue(), no
\* listener of a later unit of that request is invoked: not of the same group,
\* not of a later group, not a later use() listener.
C1_NoContinueAborts ==
    \A r \in Requests : req[r].quiet # 0 => Len(req[r].trace) = req[r].quiet

\* a finished request whose first group listener stopped, with the rest of its
\* group, a later group and a later use() listener still in the pipeline
C1_Witness ==
    \E r \in Requests :
        /\ Finished(r)
        /\ req[r].quiet = 2
        /\ Len(req[r].pipeline) = 4
        /\ req[r].ui = 2 /\ req[r].li = 1

\* C2: a listener that throws or whose promise rejects makes the registered
\* error handler run once with (the request's context, the error thrown), and no
\* listener is invoked after the failing one.
C2_ErrorHandlerGetsContextAndError ==
    \A r \in Requests :
        req[r].outcome \in {"threw", "rejected"} /\ req[r].pc \in {"returning", "done"}
            => /\ Len(req[r].trace) = req[r].caughtAt
               /\ errorHandler => req[r].errCalls = << <<r, req[r].err>> >>

\* a listener that called continue() and was then rejected, with the handler set
\* and later units left in the pipeline
C2_Witness ==
    \E r \in Requests :
        /\ Finished(r)
        /\ errorHandler
        /\ req[r].outcome = "rejected"
        /\ req[r].ownNext
        /\ req[r].caughtAt = 1
        /\ Len(req[r].pipeline) = 4

\* the text of a JSON document without the white space between its tokens
RECURSIVE JsonTokens(_, _)
JsonTokens(text, inString) ==
    IF text = <<>> THEN <<>>
    ELSE IF Head(text) = "\"" THEN <<Head(text)>> \o JsonTokens(Tail(text), ~inString)
    ELSE IF Head(text) = " " /\ ~inString THEN JsonTokens(Tail(text), inString)
    ELSE <<Head(text)>> \o JsonTokens(Tail(text), inString)

\* {"error":"Not found"}
NotFoundJson ==
    <<"{", "\"", "e", "r", "r", "o", "r", "\"", ":",
      "\"", "N", "o", "t", " ", "f", "o", "u", "n", "d", "\"", "}">>

NoPatternMatches(r) ==
    /\ req[r].method \in Methods
    /\ LET pathEntries == PathEntries(req[r].path)
       IN  \A i \in 1..Len(listeners[req[r].method]) :
                ~IsMatched(listeners[req[r].method][i].path, pathEntries)

HasGlobalUnit == \E i \in 1..Len(middleware) : ~middleware[i].arr

\* C3: a request of one of the five verbs whose path matches no registered
\* pattern of its method, with no not-found handler, is answered 404 with the
\* JSON body {"error":"Not found"}, and no listener at all is run for it.
C3_NotFoundRunsNothing ==
    \A r \in Requests :
        Dispatched(r) /\ ~notFoundHandler /\ NoPatternMatches(r)
            => /\ req[r].status = 404
               /\ JsonTokens(req[r].body, FALSE) = NotFoundJson
               /\ req[r].ended
               /\ req[r].trace = <<>>

\* an unmatched request of an application that has a use() listener and a route
\* of the request's method
C3_Witness ==
    \E r \in Requests :
        /\ Dispatched(r) /\ NoPatternMatches(r) /\ ~notFoundHandler
        /\ HasGlobalUnit
        /\ listeners[req[r].method] # <<>>

\* the listeners of the registry that apply to (method, path), in registry order:
\* every use() listener, and the list of every group with a matching pattern
RECURSIVE EffectiveUpTo(_, _, _)
EffectiveUpTo(method, pathEntries, n) ==
    IF n = 0 THEN <<>>
    ELSE LET m == middleware[n]
             own == IF ~m.arr THEN <<m.fn>>
                    ELSE IF \E i \in 1..Len(listeners[method]) :
                                /\ listeners[method][i].id = m.id
                                /\ IsMatched(listeners[method][i].path, pathEntries)
                         THEN lists[m.id]
                         ELSE <<>>
         IN  EffectiveUpTo(method, pathEntries, n - 1) \o own

Effective(method, path) == EffectiveUpTo(method, PathEntries(path), Len(middleware))

\* C4: for a request of one of the five verbs that matches a pattern, the
\* listeners run are, in registry order, the use() listeners and the listeners of
\* every group whose pattern matches (all of them), and no others; the whole
\* sequence when no listener aborts.
C4_PipelineIsAllMatchingGroups ==
    \A r \in Requests :
        Dispatched(r) /\ req[r].method \in Methods /\ req[r].routed # {}
            => LET effective == Effective(req[r].method, req[r].path)
               IN  /\ IsPrefix(req[r].trace, effective)
                   /\ req[r].how = "completed" => req[r].trace = effective

\* a completed request that matched two patterns and ran three listeners
C4_Witness ==
    \E r \in Requests :
        /\ req[r].how = "completed"
        /\ Cardinality(req[r].routed) = 2
        /\ Len(req[r].trace) = 3

\* C5 (as stated): of two listeners run for a request, the one registered by the
\* earlier call runs first.
C5_RunInRegistrationOrder ==
    \A r \in Requests :
        \A i, j \in 1..Len(req[r].trace) :
            i < j => CallOf(req[r].trace[i]) <= CallOf(req[r].trace[j])

RouteCall(c, method, path) ==
    calls[c].op = "route" /\ calls[c].method = method /\ calls[c].path = path

\* C6: when two get/post/put/delete/patch calls register the same (method,
\* pattern), a matching request whose listeners all continue runs the listeners
\* of the first call followed by those of the second, each exactly once.
C6_ReRegisteredGroupRunsOnce ==
    \A r \in Requests :
        req[r].how = "completed" /\ req[r].method \in Methods =>
            \A c, d \in 1..Len(calls) :
                /\ c < d
                /\ RouteCall(c, req[r].method, calls[c].path)
                /\ RouteCall(d, req[r].method, calls[c].path)
                /\ IsMatched(calls[c].path, PathEntries(req[r].path))
                => LET FromBoth(l) == CallOf(l) \in {c, d}
                   IN  SelectSeq(req[r].trace, FromBoth) = calls[c].ls \o calls[d].ls

\* a completed request that matched a group registered by two calls
C6_Witness ==
    \E r \in Requests :
        /\ req[r].how = "completed" /\ req[r].method \in Methods
        /\ \E c, d \in 1..Len(calls) :
                /\ c < d
                /\ RouteCall(c, req[r].method, calls[c].path)
                /\ RouteCall(d, req[r].method, calls[c].path)
                /\ IsMatched(calls[c].path, PathEntries(req[r].path))

\* C7 (as stated): the response of every request that was dispatched and whose
\* handling is over has been ended.
C7_FinishedRequestIsEnded ==
    \A r \in Requests : Finished(r) => req[r].ended

\* the use() listeners, in registry order
RECURSIVE GlobalsUpTo(_)
GlobalsUpTo(n) ==
    IF n = 0 THEN <<>>
    ELSE IF middleware[n].arr THEN GlobalsUpTo(n - 1)
    ELSE Append(GlobalsUpTo(n - 1), middleware[n].fn)

IsHeadOrOptions(r) == req[r].method \in {"OPTIONS", "HEAD"}

C9_OneListenerAtATime ==
    \A r \in Requests : req[r].inflight <= 1

\* a second listener in progress after the first, and a listener that has called
\* continue() while still in progress
C9_Witness ==
    \E r \in Requests :
        /\ req[r].pc = "running"
        /\ Len(req[r].trace) = 2
        /\ req[r].ownNext

LastIsAsterisk(pattern) ==
    PathEntries(pattern)[Len(PathEntries(pattern))] = <<"*">>

\* the path is the segments of the pattern before its last one, then any others
PrefixThenAny(pattern, path) ==
    LET before == SubSeq(PathEntries(pattern), 1, Len(PathEntries(pattern)) - 1)
    IN  IsPrefix(before, PathEntries(path))

\* C10: a pattern whose last segment is '*' matches every path made of the
\* segments before the '*' followed by zero or more segments ('/f/*' matches
\* '/f/1', '/f/1/2' and '/f').
C10_TrailingAsterisk ==
    \A r \in Requests :
        Dispatched(r) /\ req[r].method \in Methods =>
            \A i \in 1..Len(listeners[req[r].method]) :
                /\ LastIsAsterisk(listeners[req[r].method][i].path)
                /\ PrefixThenAny(listeners[req[r].method][i].path, req[r].path)
                => i \in req[r].routed

\* '/f/*' registered and matched by the bare '/f'
C10_Witness ==
    \E r \in Requests :
        /\ Dispatched(r)
        /\ req[r].path = <<"/", "f">>
        /\ \E i \in req[r].routed :
                listeners["GET"][i].path = <<"/", "f", "/", "*">>

HasAsteriskSegment(pattern) ==
    \E i \in 1..Len(PathEntries(pattern)) : PathEntries(pattern)[i] = <<"*">>

\* C11 (as stated): a pattern with a '*' segment whose last segment is not '*'
\* matches only paths that have exactly as many segments as the pattern
\* ('/f/*/m' does not match '/f/1', '/f/1/2/m' or '/f/1/m/x').
C11_MiddleAsteriskSameLength ==
    \A r \in Requests :
        Dispatched(r) /\ req[r].method \in Methods =>
            \A i \in req[r].routed :
                LET pattern == listeners[req[r].method][i].path
                IN  HasAsteriskSegment(pattern) /\ ~LastIsAsterisk(pattern)
                        => Len(PathEntries(req[r].path)) = Len(PathEntries(pattern))

IsLiteral(entry) == ~StartsWith(entry, ":") /\ entry # <<"*">>

\* every literal segment of the pattern has an equal request segment at its index
LiteralsAgree(pattern, path) ==
    \A k \in 1..Len(PathEntries(pattern)) :
        IsLiteral(PathEntries(pattern)[k])
            => /\ k <= Len(PathEntries(path))
               /\ PathEntries(pattern)[k] = PathEntries(path)[k]

LastRouted(r) == CHOOSE i \in req[r].routed : \A j \in req[r].routed : j <= i

C13_NoPartialCaptures ==
    \A r \in Requests :
        Dispatched(r) /\ req[r].method \in Methods =>
            IF req[r].routed = {}
            THEN req[r].params = NoParams
            ELSE /\ req[r].params.set
                 /\ req[r].params.map =
                        Captured(listeners[req[r].method][LastRouted(r)].path,
                                 PathEntries(req[r].path))

\* '/f/:x' then '/:x/m' registered, and GET /f/1: the second pattern captures
\* x = 'f' and then fails on 'm'; the context keeps x = '1'
C13_Witness ==
    \E r \in Requests :
        /\ Dispatched(r)
        /\ req[r].path = <<"/", "f", "/", "1">>
        /\ Len(listeners["GET"]) = 2
        /\ listeners["GET"][1].path = <<"/", "f", "/", ":", "x">>
        /\ listeners["GET"][2].path = <<"/", ":", "x", "/", "m">>
        /\ req[r].routed = {1}
        /\ req[r].params.map = { << <<"x">>, <<"1">> >> }

\* C14 (as stated): whenever a listener, the not-found handler or the error
\* handler has been invoked for a request, the params of its context are a
\* present object (empty when nothing was captured).
C14_ParamsAlwaysPresent ==
    \A r \in Requests :
        req[r].trace # <<>> \/ req[r].nfCalls # <<>> \/ req[r].errCalls # <<>>
            => req[r].params.set

\* {"error":"<text>"}
ErrorJson(text) ==
    <<"{", "\"", "e", "r", "r", "o", "r", "\"", ":", "\"", text, "\"", "}">>

Failed(r) ==
    req[r].outcome \in {"threw", "rejected"} /\ req[r].pc \in {"returning", "done"}

\* C15 (as stated): with no error handler, a listener that throws or rejects
\* gives a response with status 500 and the JSON body {"error": "<message>"},
\* ended.
C15_DefaultErrorAnswer ==
    \A r \in Requests :
        Failed(r) /\ ~errorHandler
            => /\ req[r].status = 500
               /\ JsonTokens(req[r].body, FALSE) = ErrorJson(req[r].err.text)
               /\ req[r].ended

\* C15 (amended): as stated when no listener had answered the request before the
\* failure; when one had, the response stays ended with the body it was given.
C15_DefaultErrorUnlessAnswered ==
    \A r \in Requests :
        Failed(r) /\ ~errorHandler
            => /\ req[r].ended
               /\ req[r].defaulted = 1
               /\ ~req[r].answered
                    => /\ req[r].status = 500
                       /\ JsonTokens(req[r].body, FALSE) = ErrorJson(req[r].err.text)
               /\ req[r].answered => req[r].body = ListenerBody

\* a second listener whose promise rejected with a bare string, nothing answered
\* before, no error handler
C15_Witness ==
    \E r \in Requests :
        /\ Finished(r) /\ ~errorHandler
        /\ req[r].outcome = "rejected"
        /\ req[r].err.text = "oops"
        /\ ~req[r].answered
        /\ Len(req[r].trace) = 2

\* C16 (as stated): no exception raised while a request is served leaves the
\* dispatcher: not one from a listener, from the error handler or from the
\* not-found handler.
C16_NothingEscapes ==
    \A r \in Requests : ~req[r].escaped

\* C17: with two requests in flight, a request whose listener never settles and
\* never continues holds up nothing but itself: the other request is served to
\* its end; and whether a request goes on after a turn depends on the continue()
\* calls of that request alone: it stops after a turn exactly when that turn
\* made no continue() call.
C17_StallIsLocal ==
    /\ [](\A r \in Requests :
            /\ req[r].quiet # 0 => Len(req[r].trace) = req[r].quiet
            /\ req[r].how = "stopped" => req[r].quiet = Len(req[r].trace))
    /\ Dispatched(2) ~> Finished(2)

\* the first request is held by a listener that has not continued and has not
\* settled, while the second request has run its whole pipeline to the end
C17_Witness ==
    /\ req[1].pc = "running" /\ ~req[1].ownNext
    /\ Finished(2) /\ req[2].how = "completed"
    /\ Len(req[2].trace) >= 3

\* the listeners of a pipeline, unit after unit
RECURSIVE FlattenUpTo(_, _)
FlattenUpTo(pipeline, n) ==
    IF n = 0 THEN <<>> ELSE FlattenUpTo(pipeline, n - 1) \o pipeline[n].ls

Flatten(pipeline) == FlattenUpTo(pipeline, Len(pipeline))

\* C18: however many times a listener calls continue() during its turn, before
\* or after a suspension, the pipeline goes on with the listener that follows
\* it, as after one call: no listener is skipped or run twice, the pipeline
\* stops only after a turn without any call, and it runs to its end otherwise.
C18_ContinueIsIdempotent ==
    \A r \in Requests :
        /\ IsPrefix(req[r].trace, Flatten(req[r].pipeline))
        /\ req[r].how = "stopped" => req[r].nexts = 0
        /\ req[r].how = "completed" => req[r].trace = Flatten(req[r].pipeline)

\* a request that ran its five listeners to the end, the last of them having
\* called continue() twice
C18_Witness ==
    \E r \in Requests :
        /\ Finished(r) /\ req[r].how = "completed"
        /\ req[r].nexts = 2
        /\ Len(req[r].trace) = 5

\* the registration call that created array number id: an array starts with the
\* listeners of the call it was passed to
MadeBy(id) == calls[CallOf(lists[id][1])]

InRouteTable(id) ==
    \E method \in Methods : \E j \in 1..Len(listeners[method]) :
        listeners[method][j].id = id

\* C19 (as stated): every unit that a get/post/put/delete/patch call left in the
\* registry is the list of a route table entry, and no two units are the same
\* list: a call for a (method, pattern) that is already registered appends no
\* unit.
C19_OneUnitPerGroup ==
    /\ \A i \in 1..Len(middleware) :
            middleware[i].arr /\ MadeBy(middleware[i].id).op = "route"
                => InRouteTable(middleware[i].id)
    /\ \A i, j \in 1..Len(middleware) :
            middleware[i].arr /\ middleware[j].arr /\ middleware[i].id = middleware[j].id
                => i = j

\* call c is an all() call for a pattern that no earlier get / post / ... or
\* all() call had named
FirstOnPattern(c) ==
    /\ calls[c].op = "all"
    /\ \A d \in 1..(c - 1) :
            calls[d].op \in {"route", "all"} => calls[d].path # calls[c].path

RECURSIVE MergedUpTo(_)
MergedUpTo(n) ==
    IF n = 0 THEN <<>>
    ELSE LET before == MergedUpTo(n - 1)
             call   == calls[n]
             last   == before[Len(before)]
         IN  IF /\ before # <<>>
                /\ call.op = "route" /\ last.op = "route"
                /\ call.method = last.method /\ call.path = last.path
             THEN [before EXCEPT ![Len(before)].ls = @ \o call.ls]
             ELSE Append(before, call)

EmptyRegistry == [lists |-> <<>>, listeners |-> [m \in Methods |-> <<>>], middleware |-> <<>>]

\* the registry an application has after making the calls cs[1..n]
RECURSIVE Replay(_, _)
Replay(cs, n) ==
    IF n = 0 THEN EmptyRegistry
    ELSE LET R == Replay(cs, n - 1)
             call == cs[n]
         IN  CASE call.op = "use"      -> UseOn(R, call.ls)
               [] call.op = "useArray" -> UseArrayOn(R, call.ls)
               [] call.op = "route"    -> RegisterMethodOn(R, call.method, call.path, call.ls)
               [] call.op = "all"      -> AllOn(R, call.path, call.ls)
               [] OTHER                -> R

Merged == Replay(MergedUpTo(Len(calls)), Len(MergedUpTo(Len(calls))))

\* the listeners under (method, path) in the route table of R
TableList(R, method, path) ==
    IF HasPath(R.listeners[method], path)
    THEN R.lists[GetPath(R.listeners[method], path)]
    ELSE <<>>

\* C21: an application that made get(p, a) and then get(p, b) serves every
\* request as the application that made get(p, a, b) in their place: the route
\* table holds the same listeners under every (method, pattern), a request finds
\* a match in the one exactly when it does in the other, and the listeners run
\* for it are the same, in the same order.
C21_TwoCallsAsOne ==
    LET M == Merged
    IN  /\ \A method \in Methods, path \in RegPaths :
                TableList(Registry, method, path) = TableList(M, method, path)
        /\ \A r \in Requests :
                Dispatched(r) /\ req[r].method \in Methods =>
                    LET run == Flatten(RoutePipeline(M, req[r].method, req[r].path))
                    IN  /\ Flatten(req[r].pipeline)
                                = IF req[r].routed = {} THEN <<>> ELSE run
                        /\ req[r].routed = {}
                                <=> PathListeners(M.listeners[req[r].method],
                                                  PathEntries(req[r].path)) = <<>>
                        /\ req[r].how = "completed" => req[r].trace = run

\* get(p, a) and then get(p, b) after a use() call, and a request served to the
\* end by the use() listener, a and b
C21_Witness ==
    \E r \in Requests :
        /\ Len(calls) = 3
        /\ calls[1].op = "use"
        /\ RouteCall(2, "GET", calls[2].path)
        /\ RouteCall(3, "GET", calls[2].path)
        /\ req[r].how = "completed"
        /\ req[r].trace = calls[1].ls \o calls[2].ls \o calls[3].ls

\* C22: for a request of one of the five verbs whose path matches no pattern of
\* its method, with a not-found handler registered, the handler is called once,
\* its first argument being the context of the request; the default 404 answer
\* is not written, and no listener and no error handler is run.
C22_NotFoundHandlerOnly ==
    \A r \in Requests :
        Dispatched(r) /\ notFoundHandler /\ NoPatternMatches(r)
            => /\ Len(req[r].nfCalls) = 1
               /\ req[r].nfCalls[1][1] = r
               /\ req[r].status # 404
               /\ req[r].body # NotFoundBody
               /\ req[r].trace = <<>>
               /\ req[r].errCalls = <<>>

\* an unmatched request of an application that has a not-found handler, a use()
\* listener and a route of the request's method
C22_Witness ==
    \E r \in Requests :
        /\ Dispatched(r) /\ NoPatternMatches(r) /\ notFoundHandler
        /\ HasGlobalUnit
        /\ listeners[req[r].method] # <<>>

IsOtherMethod(r) == req[r].method \notin Methods \cup {"OPTIONS", "HEAD"}

\* C23: for a request whose method is none of the five verbs and neither
\* OPTIONS nor HEAD, no pattern is matched, no listener, not-found handler or
\* error handler is called, and the response stays as it was created: status
\* 200, nothing written.
C23_OtherMethodUntouched ==
    \A r \in Requests :
        Dispatched(r) /\ IsOtherMethod(r)
            => /\ req[r].routed = {} /\ req[r].params = NoParams
               /\ req[r].pipeline = <<>>
               /\ req[r].trace = <<>>
               /\ req[r].nfCalls = <<>> /\ req[r].errCalls = <<>>
               /\ req[r].status = 200 /\ req[r].body = <<>>

\* a TRACE request to an application that has a use() listener, a route and
\* both handlers
C23_Witness ==
    \E r \in Requests :
        /\ Dispatched(r) /\ req[r].method = "TRACE"
        /\ HasGlobalUnit
        /\ errorHandler /\ notFoundHandler

\* {"error":"<message>"}, the message being a text
ErrorJsonOf(message) ==
    <<"{", "\"", "e", "r", "r", "o", "r", "\"", ":", "\"">> \o message \o <<"\"", "}">>

\* C24: send(body, status) does not throw when the body cannot be serialized:
\* the response then has status 500, whatever status was passed, and the JSON
\* body {"error": "<message>"}; for a body that can be serialized it has the
\* status passed, 200 when none was, and the text of the body. In both cases
\* Content-Type is application/json, Content-Length is the number of bytes of
\* the body written, and the stream is ended.
C24_SendDegradesTo500 ==
    \A r \in Requests :
        req[r].sentStatus # 0 /\ req[r].how # "error"
            => /\ req[r].ended
               /\ ~req[r].escaped /\ req[r].outcome # "threw"
               /\ req[r].contentType = "application/json"
               /\ req[r].contentLength = ByteLength(req[r].body)
               /\ IF req[r].sentBody.throws
                  THEN /\ req[r].status = 500
                       /\ JsonTokens(req[r].body, FALSE) = ErrorJsonOf(req[r].sentBody.text)
                  ELSE /\ req[r].status = req[r].sentStatus
                       /\ req[r].body = req[r].sentBody.text

\* send(body, 201) with a body on which JSON.stringify throws the message 'é':
\* status 500 and a body of more bytes than characters
C24_Witness ==
    \E r \in Requests :
        /\ req[r].sentBody.throws
        /\ req[r].sentStatus = 201
        /\ req[r].status = 500
        /\ req[r].ended
        /\ req[r].contentLength > Len(req[r].body)

\* C25: a route registration for a method outside GET, POST, PUT, DELETE, PATCH
\* throws at the call, and the call changes neither the route table nor the
\* middleware list
C25_UnsupportedMethodRejected ==
    [][(Len(calls') = Len(calls) + 1
          /\ calls'[Len(calls')].op \in {"route", "routeThrew"}
          /\ calls'[Len(calls')].method \notin Methods)
       => /\ calls'[Len(calls')].op = "routeThrew"
          /\ listeners' = listeners
          /\ middleware' = middleware
          /\ lists' = lists]_vars

C25_Witness ==
    \E c \in 2..Len(calls) :
        /\ calls[c].op = "routeThrew"
        /\ calls[c - 1].op = "route"
        /\ Len(middleware) = Len(calls) - 1
        /\ \E r \in Requests : Finished(r) /\ req[r].routed # {}

\* C26 (as stated): a pattern with no segment that is exactly '*' matches only
\* paths with as many segments as the pattern, also when one of its segments
\* contains the character '*'.
C26_NoWildcardSameLength ==
    \A r \in Requests :
        Dispatched(r) /\ req[r].method \in Methods =>
            \A i \in req[r].routed :
                LET pattern == listeners[req[r].method][i].path
                IN  ~HasAsteriskSegment(pattern)
                        => Len(PathEntries(req[r].path)) = Len(PathEntries(pattern))

\* the names captured for request record q by the matching patterns of the
\* method's entries examined before the last matching one
EarlierNames(q, methodListeners, last) ==
    UNION { {pr[1] : pr \in Captured(methodListeners[i].path, PathEntries(q.path))} :
            i \in q.routed \ {last} }

\* the params of request record q are the captures of the last matching entry only
LastMatchOnly(q, methodListeners) ==
    LET last == CHOOSE i \in q.routed : \A j \in q.routed : j <= i
        captures == Captured(methodListeners[last].path, PathEntries(q.path))
    IN  /\ q.params = [set |-> TRUE, map |-> captures]
        /\ \A pr \in q.params.map :
                pr[1] \in EarlierNames(q, methodListeners, last)
                    => \E qr \in captures : qr[1] = pr[1]

\* C27: when several patterns of the request's method match, the params of the
\* context are the captures of the last of them in insertion order, a name
\* captured only by an earlier matching pattern is absent, and no later step of
\* the request changes the params.
C27_LastMatchWins ==
    [][\A r \in Requests :
            /\ Cardinality(req'[r].routed) >= 2
                    => LastMatchOnly(req'[r], listeners'[req'[r].method])
            /\ Dispatched(r) => req'[r].params = req[r].params]_vars

\* '/f/:x' then '/f/*/:y' registered, and GET /f/1: both match, both listeners
\* ran, and the params hold y (undefined) without x
C27_Witness ==
    \E r \in Requests :
        /\ Finished(r)
        /\ req[r].path = <<"/", "f", "/", "1">>
        /\ Len(listeners["GET"]) = 2
        /\ listeners["GET"][1].path = <<"/", "f", "/", ":", "x">>
        /\ listeners["GET"][2].path = <<"/", "f", "/", "*", "/", ":", "y">>
        /\ req[r].routed = {1, 2}
        /\ Len(req[r].trace) = 2
        /\ req[r].params.map = { << <<"y">>, Undefined >> }

\* the text of str before its first char, the whole of it when it has none
BeforeFirst(str, char) ==
    LET at == {i \in 1..Len(str) : str[i] = char}
    IN  IF at = {} THEN str
        ELSE SubSeq(str, 1, (CHOOSE i \in at : \A j \in at : i <= j) - 1)

\* the text of str after its first char, empty when it has none
AfterFirst(str, char) ==
    LET at == {i \in 1..Len(str) : str[i] = char}
    IN  IF at = {} THEN <<>>
        ELSE SubSeq(str, (CHOOSE i \in at : \A j \in at : i <= j) + 1, Len(str))

\* C28 (as stated): the path is the URL before its first '?' and the query is
\* all that follows the first '?', further '?' included; without a '?' or with
\* nothing after it the query is empty and the query parameters are an empty map.
C28_SplitAtFirstQuestionMark ==
    \A r \in Requests :
        Dispatched(r) =>
            /\ req[r].path = BeforeFirst(req[r].url, "?")
            /\ req[r].query = AfterFirst(req[r].url, "?")
            /\ AfterFirst(req[r].url, "?") = <<>>
                    => req[r].query = <<>> /\ req[r].queryParams = {}

\* a POST, PUT or PATCH request with content type application/json and a body
\* JSON.parse rejects, which reached the body parser
InvalidJsonParsed(q) ==
    /\ q.pc # "new"
    /\ q.method \in {"POST", "PUT", "PATCH"}
    /\ q.headers = "application/json"
    /\ q.data.text # <<>> /\ q.data.invalid
    /\ q.trace # <<>>

\* C29: with parseBodyMiddleware registered by use(), a POST, PUT or PATCH request
\* of content type application/json whose body is not valid JSON is handled as
\* a listener error: the body parser calls no continue(), no later listener
\* runs, no body is assigned, and the error handler is called with the error,
\* or, without one, the response is the default 500.
C29_InvalidJsonIsListenerError ==
    \A r \in Requests :
        InvalidJsonParsed(req[r]) =>
            /\ req[r].trace = <<ParseBodyListener>>
            /\ req[r].nexts = 0 /\ ~req[r].ownNext
            /\ ~req[r].requestBody.set
            /\ req[r].pc = "settled" => req[r].outcome = "rejected"
            /\ req[r].pc \in {"returning", "done"} =>
                    /\ req[r].how = "error"
                    /\ IF errorHandler
                       THEN /\ req[r].errCalls = <<ErrorHandlerArgs(r, SyntaxError)>>
                            /\ req[r].defaulted = 0
                       ELSE /\ req[r].defaulted = 1
                            /\ req[r].ended /\ req[r].status = 500
                            /\ req[r].body = ErrorBody(SyntaxError)

C29_Witness ==
    \E r \in Requests :
        /\ InvalidJsonParsed(req[r])
        /\ Finished(r)
        /\ Len(req[r].pipeline) = 3
        /\ req[r].trace = <<ParseBodyListener>>
        /\ req[r].status = 500

\* C30 (as stated): the engine goes on to another listener only after a turn in
\* which the listener itself called continue(); a turn that ended without it
\* stops the pipeline even if a continue() kept by an earlier listener of the
\* request was called during that turn.
C30_OwnContinueOnly ==
    [][\A r \in Requests :
            (/\ req[r].pc = "settled"
             /\ req[r].outcome = "resolved"
             /\ ~req[r].ownNext
             /\ req'[r] # req[r])
                => /\ req'[r].trace = req[r].trace
                   /\ req'[r].how = "stopped"]_vars

\* C31 (as stated): a listener passed to get, post, put, delete or patch is run
\* only for requests of that method, whatever calls were made before or after.
C31_SingleMethodOnly ==
    \A r \in Requests :
        Dispatched(r) =>
            \A i \in 1..Len(req[r].trace) :
                LET call == calls[CallOf(req[r].trace[i])]
                IN  call.op = "route" => call.method = req[r].method

\* C32 (as stated): no listener is run twice for one request, whatever
\* registration calls were made.
C32_AtMostOncePerDispatch ==
    \A r \in Requests :
        \A i, j \in 1..Len(req[r].trace) :
            i # j => req[r].trace[i] # req[r].trace[j]

\* C33 (as stated): whenever a listener passed to a route call for pattern P has
\* been run for a request, the params of the context bind every ':name' segment
\* of P to the request segment at its index, also when several patterns match.
C33_ParamsOfOwnPattern ==
    \A r \in Requests :
        Dispatched(r) =>
            \A k \in 1..Len(req[r].trace) :
                LET call == calls[CallOf(req[r].trace[k])]
                IN  call.op = "route"
                        => Captured(call.path, PathEntries(req[r].path))
                                \subseteq req[r].params.map

\* the listeners of the pipeline that the registry as it was when the dispatch
\* of request r started gives for its method and path
AtDispatch(r) ==
    Flatten(RoutePipeline(Replay(calls, req[r].callsAt), req[r].method, req[r].path))

\* C34: the listeners run for a request are those of the registry as it was
\* when its dispatch started, in that order; a use() or get() call made while
\* the request is suspended in a listener adds none and removes none, and a
\* request dispatched after the call is served with the new registration.
C34_PipelineFixedAtDispatch ==
    \A r \in Requests :
        Dispatched(r) /\ req[r].routed # {} =>
            LET fixed == AtDispatch(r)
            IN  /\ Flatten(req[r].pipeline) = fixed
                /\ IsPrefix(req[r].trace, fixed)
                /\ req[r].how = "completed" => req[r].trace = fixed

\* the first request is suspended in its second listener, use() and get('/a')
\* were called after its dispatch, and the second request, dispatched after the
\* calls for the same path, ran all four listeners
C34_Witness ==
    /\ Len(calls) = 4
    /\ req[1].pc = "running" /\ req[1].callsAt = 2 /\ Len(req[1].trace) = 2
    /\ Len(Flatten(req[1].pipeline)) = 2
    /\ Finished(2) /\ req[2].how = "completed"
    /\ req[2].callsAt = 4 /\ Len(req[2].trace) = 4
    /\ req[1].path = req[2].path

\* C35 (as stated): the listeners of every use() call, made with one listener or
\* with an array of listeners, are in the pipeline of every request that matched
\* a route and of every OPTIONS or HEAD request, and all of them have run when
\* the pipeline completed.
C35_EveryUseUnitRuns ==
    \A r \in Requests :
        Dispatched(r) /\ (req[r].routed # {} \/ IsHeadOrOptions(r)) =>
            \A c \in 1..Len(calls) :
                calls[c].op \in {"use", "useArray"} =>
                    \A k \in 1..Len(calls[c].ls) :
                        /\ \E i \in 1..Len(Flatten(req[r].pipeline)) :
                                Flatten(req[r].pipeline)[i] = calls[c].ls[k]
                        /\ req[r].how = "completed" =>
                                \E i \in 1..Len(req[r].trace) :
                                    req[r].trace[i] = calls[c].ls[k]

\* the number of times the error handler or the default 500 answer was used
ErrorUses(r) == Len(req[r].errCalls) + req[r].defaulted

\* C36: the error handler, or the default 500 answer, is used at most once for
\* a request, and only after a listener threw or rejected: never for a request
\* whose pipeline completed or stopped for want of a continue() call.
C36_ErrorPathOnceAfterFailure ==
    \A r \in Requests :
        /\ ErrorUses(r) <= 1
        /\ ErrorUses(r) = 1 =>
                /\ req[r].outcome \in {"threw", "rejected"}
                /\ req[r].how = "error"
                /\ req[r].caughtAt = Len(req[r].trace)
        /\ req[r].how \in {"stopped", "completed"} => ErrorUses(r) = 0
        /\ errorHandler => req[r].defaulted = 0
        /\ ~errorHandler => req[r].errCalls = <<>>

\* a request whose third listener rejected after two listeners had continued,
\* with listeners left in the pipeline, answered once by the default 500
C36_Witness ==
    \E r \in Requests :
        /\ Finished(r)
        /\ req[r].outcome = "rejected"
        /\ Len(req[r].trace) = 3
        /\ Len(Flatten(req[r].pipeline)) > 3
        /\ req[r].defaulted = 1 /\ req[r].status = 500

\* a listener was invoked for request r in this step, at a position of the
\* pipeline after the one of the listener invoked before it
InvokedFurtherOn(r) ==
    /\ Len(req'[r].trace) = Len(req[r].trace) + 1
    /\ \/ req'[r].ui > req[r].ui
       \/ req'[r].ui = req[r].ui /\ req'[r].li > req[r].li
    /\ req'[r].ui \in 1..Len(req'[r].pipeline)
    /\ req'[r].li \in 1..Len(req'[r].pipeline[req'[r].ui].ls)
    /\ req'[r].trace[Len(req'[r].trace)] = req'[r].pipeline[req'[r].ui].ls[req'[r].li]

\* C37: when every invoked listener settles, a dispatched request reaches its
\* end, completed, stopped or failed, after one forward pass over its pipeline:
\* each invocation is at a later position than the one before, so that no
\* position is visited twice and there are at most as many invocations as the
\* pipeline has listeners.
C37_OneForwardPass ==
    /\ [][\A r \in Requests :
                req'[r].trace # req[r].trace => InvokedFurtherOn(r)]_vars
    /\ [](\A r \in Requests :
                /\ Len(req[r].trace) <= Len(Flatten(req[r].pipeline))
                /\ Finished(r) /\ req[r].pipeline # <<>>
                        => req[r].how \in {"completed", "stopped", "error"})
    /\ \A r \in FirstRequest : Dispatched(r) ~> Finished(r)

\* a request that ran its whole pipeline of five listeners and reached its end
C37_Witness ==
    \E r \in Requests :
        /\ Finished(r)
        /\ req[r].how = "completed"
        /\ Len(req[r].trace) = 5
        /\ Len(Flatten(req[r].pipeline)) = 5
        /\ req[r].nexts = MaxNextCalls
====
